---- MODULE Spec2Model ----
(***************************************************************************)
(* The quiz session state machines of the repository.                      *)
(*                                                                         *)
(*   extended variant : src/unnamed/part_000 (settings, shuffle, free      *)
(*                      navigation, Master Challenge)                      *)
(*   basic variant    : src/my-quiz-app/src/QuizApp.tsx (linear, delayed   *)
(*                      auto-advance); its definitions carry the prefix    *)
(*                      basic_ because both files use the same names       *)
(*                                                                         *)
(* Every React event handler runs to completion against the state of the   *)
(* latest render and its setState calls are applied together, so a handler *)
(* is one atomic action.  Strings (question texts, options, images) are    *)
(* modelled by integers; 0 is the empty string.  Indices into arrays are   *)
(* kept 0-based as in the code; Sequences are 1-based, hence the "+ 1".    *)
(***************************************************************************)
EXTENDS Integers, Sequences, FiniteSets, TLC

VARIABLES
    quizData,               \* QuizData | null
    currentView,            \* "home" | "settings" | "quiz" | "results"
    selectedQuiz,           \* Quiz | null
    processedQuiz,          \* Quiz | null            (extended variant)
    currentQuestionIndex,   \* number, 0-based
    userAnswers,            \* UserAnswer[]
    startTime,              \* Date | null, in milliseconds
    endTime,                \* Date | null, in milliseconds
    loading,                \* boolean
    quizSettings,           \* QuizSettings           (extended variant)
    selectedAnswer,         \* string                 (basic variant)
    showResult,             \* boolean                (basic variant)
    timers,                 \* pending setTimeout callbacks, oldest first (basic variant)
    now,                    \* the wall clock read by new Date(), in milliseconds
    lastOp                  \* history: the handler (and branch) that ran last

vars == <<quizData, currentView, selectedQuiz, processedQuiz, currentQuestionIndex,
          userAnswers, startTime, endTime, loading, quizSettings, selectedAnswer,
          showResult, timers, now, lastOp>>

(***************************************************************************)
(* Bounds of the model.                                                    *)
(***************************************************************************)
MaxQuizzes == 2
MaxQuestions == 2
NumOptions == 2
MaxTime == 1
TickMs == 500
MaxTimers == 2
MaxScoreTotal == 40

(***************************************************************************)
(* Values.                                                                 *)
(***************************************************************************)
Null == [null |-> TRUE]
NoTime == -1
EmptyString == 0

Range(s) == {s[k] : k \in 1..Len(s)}

Max(a, b) == IF a >= b THEN a ELSE b

(***************************************************************************)
(* The catalogs fetched from /data.json in the model.  A catalog holds the *)
(* first n quizzes of a family given by the lengths of its quizzes; n = 0  *)
(* is the catalog with no quiz at all.  Question g of a family has its own *)
(* text and its own options, the correct option moves with g, and every    *)
(* odd question carries an image; questionNumber counts within the quiz.   *)
(*                                                                         *)
(*   Catalogs        quizzes of MaxQuestions, MaxQuestions - 1, ... , 0    *)
(*                   questions                                             *)
(*   SessionCatalogs quizzes of MaxQuestions - 1 questions each, for the   *)
(*                   full session of the extended variant, whose restarts  *)
(*                   multiply every state by every outcome of the shuffles *)
(***************************************************************************)
QuizNames == <<"Quiz 1", "Quiz 2", "Quiz 3", "Quiz 4">>

DecreasingLengths == [i \in 1..MaxQuizzes |-> Max(0, MaxQuestions + 1 - i)]

EqualLengths == [i \in 1..MaxQuizzes |-> MaxQuestions - 1]

RECURSIVE Offset(_, _)
Offset(lengths, i) == IF i <= 1 THEN 0 ELSE Offset(lengths, i - 1) + lengths[i - 1]

Question(g, number) ==
    LET base == [questionNumber |-> number,
                 questionText   |-> g,
                 options        |-> [k \in 1..NumOptions |-> 10 * g + k],
                 correctAnswer  |-> 10 * g + 1 + (g % NumOptions)]
    IN  IF g % 2 = 1
        THEN [f \in DOMAIN base \cup {"image"} |->
                 IF f = "image" THEN 1000 + g ELSE base[f]]
        ELSE base

Quiz(lengths, i) ==
    [quiz      |-> QuizNames[i],
     topic     |-> "Topic",
     questions |-> [j \in 1..lengths[i] |-> Question(Offset(lengths, i) + j, j)]]

Catalog(lengths, n) ==
    [course      |-> "Course",
     description |-> "Description",
     quizzes     |-> [i \in 1..n |-> Quiz(lengths, i)]]

Catalogs == {Catalog(DecreasingLengths, n) : n \in 0..MaxQuizzes}

SessionCatalogs == {Catalog(EqualLengths, n) : n \in 0..MaxQuizzes}

(***************************************************************************)
(* new Date(): the clock never runs backwards; between two readings any    *)
(* number of ticks may have passed.                                        *)
(***************************************************************************)
Dates == {t \in {now + k * TickMs : k \in 0..MaxTime} : t <= MaxTime * TickMs}

(***************************************************************************)
(* createAllQuestionsQuiz (part_000 61-79): the nested forEach pushes a    *)
(* copy of every question, numbered by the running questionCounter.        *)
(***************************************************************************)
(* A variant that copies the questions without renumbering them. *)
RECURSIVE PushQuestions_keepNumber(_, _, _)
PushQuestions_keepNumber(questions, j, acc) ==
    IF j > Len(questions) THEN acc
    ELSE PushQuestions_keepNumber(questions, j + 1,
            [allQuestions    |-> Append(acc.allQuestions, questions[j]),
             questionCounter |-> acc.questionCounter + 1])

RECURSIVE PushQuestions(_, _, _)
PushQuestions(questions, j, acc) ==
    IF j > Len(questions) THEN acc
    ELSE PushQuestions(questions, j + 1,
            [allQuestions    |-> Append(acc.allQuestions,
                                        [questions[j] EXCEPT
                                            !.questionNumber = acc.questionCounter]),
             questionCounter |-> acc.questionCounter + 1])

RECURSIVE PushQuizzes(_, _, _)
PushQuizzes(quizzes, i, acc) ==
    IF i > Len(quizzes) THEN acc
    ELSE PushQuizzes(quizzes, i + 1, PushQuestions(quizzes[i].questions, 1, acc))

createAllQuestionsQuiz(data) ==
    [quiz      |-> "Master Challenge",
     topic     |-> "All Topics Combined",
     questions |-> PushQuizzes(data.quizzes, 1,
                       [allQuestions |-> <<>>, questionCounter |-> 1]).allQuestions]

(***************************************************************************)
(* shuffleArray (part_000 81-88): Fisher-Yates on a copy of the argument.  *)
(* Math.random() is any value of [0, 1), so j is any index of 0..i.  The   *)
(* result is the set of possible outcomes, each with the returned array    *)
(* (ret) and the argument array as the call leaves it (arg): the argument  *)
(* is an object shared with the caller's data.                             *)
(***************************************************************************)
(* A variant of the swap that loses the element at i. *)
Swap_overwrite(array, i, j) == [array EXCEPT ![i + 1] = array[j + 1]]

Swap(array, i, j) == [array EXCEPT ![i + 1] = array[j + 1], ![j + 1] = array[i + 1]]

RECURSIVE FisherYates(_, _)
FisherYates(shuffled, i) ==
    IF i > 0
    THEN UNION {FisherYates(Swap(shuffled, i, j), i - 1) : j \in 0..i}
    ELSE {shuffled}

(* A variant that shuffles the argument itself instead of a copy. *)
shuffleArray_inPlace(array) ==
    {[ret |-> shuffled, arg |-> shuffled] : shuffled \in FisherYates(array, Len(array) - 1)}

shuffleArray(array) ==
    {[ret |-> shuffled, arg |-> array] : shuffled \in FisherYates(array, Len(array) - 1)}

(***************************************************************************)
(* processQuizWithSettings (part_000 192-220).  The question list is       *)
(* copied (196), so shuffling it cannot touch the quiz; the question       *)
(* objects and their options arrays are shared with the quiz passed in,    *)
(* which is the selected quiz, itself a catalog quiz or a Master Challenge *)
(* whose questions share their options arrays with the catalog.  ret is    *)
(* the returned quiz, arg the quiz passed in as the call leaves it.        *)
(* Objects are identified by their questionText, unique in the catalogs    *)
(* of the model.                                                           *)
(***************************************************************************)
(* A variant that leaves the question numbers as they were. *)
Renumber_keep(questions) == questions

Renumber(questions) ==
    [idx \in 1..Len(questions) |-> [questions[idx] EXCEPT !.questionNumber = idx]]

(* A variant that shuffles the questions whatever the settings say. *)
ShuffledQuestions_always(quiz, settings) ==
    {Renumber(s.ret) : s \in shuffleArray(quiz.questions)}

ShuffledQuestions(quiz, settings) ==
    IF settings.shuffleQuestions
    THEN {Renumber(s.ret) : s \in shuffleArray(quiz.questions)}
    ELSE {quiz.questions}

RECURSIVE OptionShuffles(_, _)
OptionShuffles(questions, n) ==
    IF n = 0 THEN {<<>>}
    ELSE {Append(c, s) : c \in OptionShuffles(questions, n - 1),
                         s \in shuffleArray(questions[n].options)}

HasText(questions, text) == \E k \in 1..Len(questions) : questions[k].questionText = text

IndexOfText(questions, text) ==
    CHOOSE k \in 1..Len(questions) : questions[k].questionText = text

OptionsLeft(question, questions, shuffles) ==
    IF HasText(questions, question.questionText)
    THEN shuffles[IndexOfText(questions, question.questionText)].arg
    ELSE question.options

processQuizWithSettings(quiz, settings) ==
    UNION {
        IF settings.shuffleAnswers
        THEN {[ret |-> [quiz EXCEPT !.questions =
                          [k \in 1..Len(questions) |->
                              [questions[k] EXCEPT !.options = shuffles[k].ret]]],
               arg |-> [quiz EXCEPT !.questions =
                          [k \in 1..Len(quiz.questions) |->
                              [quiz.questions[k] EXCEPT !.options =
                                  OptionsLeft(quiz.questions[k], questions, shuffles)]]]]
              : shuffles \in OptionShuffles(questions, Len(questions))}
        ELSE {[ret |-> [quiz EXCEPT !.questions = questions], arg |-> quiz]}
        : questions \in ShuffledQuestions(quiz, settings)}

(***************************************************************************)
(* The selected quiz is an object of the catalog (HomeView, 499), or a     *)
(* Master Challenge whose question copies keep the catalog's options       *)
(* arrays (68): what a call leaves in the options of the quiz it was given *)
(* is what the catalog holds afterwards.                                   *)
(***************************************************************************)
SharedOptions(quiz, question) ==
    IF HasText(quiz.questions, question.questionText)
    THEN quiz.questions[IndexOfText(quiz.questions, question.questionText)].options
    ELSE question.options

WriteBack(data, quiz) ==
    [data EXCEPT !.quizzes =
        [i \in 1..Len(data.quizzes) |->
            [data.quizzes[i] EXCEPT !.questions =
                [j \in 1..Len(data.quizzes[i].questions) |->
                    [data.quizzes[i].questions[j] EXCEPT !.options =
                        SharedOptions(quiz, data.quizzes[i].questions[j])]]]]]

(***************************************************************************)
(* JavaScript numbers.  Math.round((correctAnswers / totalQuestions) * 100)*)
(* (part_000 326, QuizApp.tsx 167) is computed in IEEE-754 binary64: the   *)
(* quotient is rounded to 53 significant bits (round to nearest, ties to   *)
(* even), the product with 100 is rounded again, and Math.round rounds the *)
(* result half up.  A 53-bit significand is held as five digits, least     *)
(* significant first: four digits of 13 bits and the leading digit on top; *)
(* a double is [m |-> digits, e |-> e] with the value m * 2^(-e - 52).     *)
(***************************************************************************)
NaN == -1

RECURSIVE Pow2(_)
Pow2(n) == IF n = 0 THEN 1 ELSE 2 * Pow2(n - 1)

Radix == Pow2(13)

RECURSIVE BitLength(_)
BitLength(n) == IF n = 0 THEN 0 ELSE 1 + BitLength(n \div 2)

(* The position of the first 1 of a / b (0 < a < b) after the binary      *)
(* point, and the remainder behind it.                                     *)
RECURSIVE LeadingBit(_, _, _)
LeadingBit(r, b, e) ==
    IF 2 * r >= b THEN [e |-> e, rem |-> 2 * r - b] ELSE LeadingBit(2 * r, b, e + 1)

RECURSIVE QuotientDigits(_, _, _, _)
QuotientDigits(r, b, n, acc) ==
    IF n = 0 THEN [digits |-> acc, rem |-> r]
    ELSE QuotientDigits((r * Radix) % b, b, n - 1, <<(r * Radix) \div b>> \o acc)

RECURSIVE AddCarry(_, _, _)
AddCarry(digits, i, carry) ==
    IF i = Len(digits) THEN [digits EXCEPT ![i] = digits[i] + carry]
    ELSE AddCarry([digits EXCEPT ![i] = (digits[i] + carry) % Radix], i + 1,
                  (digits[i] + carry) \div Radix)

(* a / b for integers 0 < a <= b. *)
Divide(a, b) ==
    IF a = b THEN [m |-> <<0, 0, 0, 0, 1>>, e |-> 0]
    ELSE LET lead == LeadingBit(a, b, 1)
             q    == QuotientDigits(lead.rem, b, 4, <<>>)
             m    == q.digits \o <<1>>
             up   == 2 * q.rem > b \/ (2 * q.rem = b /\ m[1] % 2 = 1)
         IN  [m |-> IF up THEN AddCarry(m, 1, 1) ELSE m, e |-> lead.e]

RECURSIVE TimesDigits(_, _, _, _)
TimesDigits(digits, k, i, carry) ==
    IF i = Len(digits) THEN [digits EXCEPT ![i] = digits[i] * k + carry]
    ELSE TimesDigits([digits EXCEPT ![i] = (digits[i] * k + carry) % Radix], k, i + 1,
                     (digits[i] * k + carry) \div Radix)

(* x * k for a double x > 0 and an integer 64 <= k < 128: the exact       *)
(* product has 6 or 7 bits more than 53, which are rounded away.           *)
Times(x, k) ==
    LET product == TimesDigits(x.m, k, 1, 0)
        extra   == BitLength(product[5]) - 1
        dropped == product[1] % Pow2(extra)
        half    == Pow2(extra - 1)
        up      == dropped > half \/
                   (dropped = half /\ (product[1] \div Pow2(extra)) % 2 = 1)
    IN  [m |-> AddCarry([product EXCEPT ![1] = product[1] - dropped], 1,
                        IF up THEN Pow2(extra) ELSE 0),
         e |-> x.e]

(* Math.round of a double 0 < x < 256 with x.e >= 0: the integer part,    *)
(* plus one when the first fractional bit is set (round half up).          *)
MathRound(x) ==
    (x.m[5] \div Pow2(x.e))
    + (IF x.e >= 1 THEN (x.m[5] \div Pow2(x.e - 1)) % 2
                   ELSE (x.m[4] \div Pow2(12)) % 2)

(* Math.round((correctAnswers / totalQuestions) * 100), correct <= total;  *)
(* 0 / 0 is NaN and Math.round(NaN) is NaN.                                *)
RoundedPercentage(correctAnswers, totalQuestions) ==
    IF totalQuestions = 0 THEN NaN
    ELSE IF correctAnswers = 0 THEN 0
    ELSE MathRound(Times(Divide(correctAnswers, totalQuestions), 100))

(***************************************************************************)
(* Construction: the useState initial values of both components.           *)
(***************************************************************************)
Init ==
    /\ quizData = Null
    /\ currentView = "home"
    /\ selectedQuiz = Null
    /\ processedQuiz = Null
    /\ currentQuestionIndex = 0
    /\ userAnswers = <<>>
    /\ startTime = NoTime
    /\ endTime = NoTime
    /\ loading = TRUE
    /\ quizSettings = [shuffleQuestions   |-> FALSE,
                       shuffleAnswers     |-> FALSE,
                       restartOnIncorrect |-> FALSE]
    /\ selectedAnswer = EmptyString
    /\ showResult = FALSE
    /\ timers = <<>>
    /\ now = 0
    /\ lastOp = "init"

(***************************************************************************)
(* loadQuizData, the fetch of /data.json answering with a catalog (part_000*)
(* 112-117 and 180, QuizApp.tsx 66-71 and 101).                            *)
(***************************************************************************)
loadQuizData(parsedData) ==
    /\ loading
    /\ quizData' = parsedData
    /\ loading' = FALSE
    /\ lastOp' = "loadQuizData"
    /\ UNCHANGED <<currentView, selectedQuiz, processedQuiz, currentQuestionIndex,
                   userAnswers, startTime, endTime, quizSettings, selectedAnswer,
                   showResult, timers, now>>

(***************************************************************************)
(* The embedded fallback catalogs (part_000 132-176, QuizApp.tsx 74-98):   *)
(* one Demo Quiz of three questions (one question in the basic variant),   *)
(* four options each; the third question has an image.                     *)
(***************************************************************************)
FallbackQuestion(number, correct) ==
    [questionNumber |-> number,
     questionText   |-> 100 + number,
     options        |-> [k \in 1..4 |-> 1000 + 10 * number + k],
     correctAnswer  |-> 1000 + 10 * number + correct]

FallbackQuestions ==
    <<FallbackQuestion(1, 1),
      FallbackQuestion(2, 2),
      [f \in DOMAIN FallbackQuestion(3, 1) \cup {"image"} |->
          IF f = "image" THEN 2003 ELSE FallbackQuestion(3, 1)[f]]>>

FallbackCatalog(questions) ==
    [course      |-> "Software Technology - Programming Technology",
     description |-> "Complete quiz collection from Week 2-12 and additional topics",
     quizzes     |-> <<[quiz      |-> "Demo Quiz",
                        topic     |-> "Sample Questions",
                        questions |-> questions]>>]

fallbackData == FallbackCatalog(FallbackQuestions)

basic_fallbackData == FallbackCatalog(<<FallbackQuestions[1]>>)

(***************************************************************************)
(* loadQuizData of the extended variant (part_000 109-185), one action for *)
(* each continuation of the async function.  Nothing else runs while the   *)
(* catalog loads, so the await the function is suspended at is the step    *)
(* recorded in lastOp:                                                     *)
(*   "init"                   await fetch("/data.json")            (112)   *)
(*   "loadQuizData:response"  await response.json()                (116)   *)
(*   "loadQuizData:readFile"  await window.fs.readFile("data.json") (122)  *)
(* setQuizData and the setLoading(false) of the finally block (180) run in *)
(* the same continuation and are applied together.                         *)
(***************************************************************************)
LoaderStep(op) ==
    /\ lastOp' = op
    /\ UNCHANGED <<quizData, currentView, selectedQuiz, processedQuiz,
                   currentQuestionIndex, userAnswers, startTime, endTime, loading,
                   quizSettings, selectedAnswer, showResult, timers, now>>

(* A variant without the finally block. *)
LoaderDone_noFinally(data, op) ==
    /\ quizData' = data
    /\ lastOp' = op
    /\ UNCHANGED <<currentView, selectedQuiz, processedQuiz, currentQuestionIndex,
                   userAnswers, startTime, endTime, loading, quizSettings,
                   selectedAnswer, showResult, timers, now>>

LoaderDone(data, op) ==
    /\ quizData' = data
    /\ loading' = FALSE
    /\ lastOp' = op
    /\ UNCHANGED <<currentView, selectedQuiz, processedQuiz, currentQuestionIndex,
                   userAnswers, startTime, endTime, quizSettings, selectedAnswer,
                   showResult, timers, now>>

(* fetch resolves with response.ok (112-113). *)
loadQuizData_fetchOk ==
    /\ loading
    /\ lastOp = "init"
    /\ LoaderStep("loadQuizData:response")

(* response.json() resolves (116-117, 180). *)
loadQuizData_json ==
    /\ lastOp = "loadQuizData:response"
    /\ \E parsedData \in SessionCatalogs : loadQuizData(parsedData)

(* The catch block (118-178): fetch rejected, the response was not OK, or  *)
(* response.json() rejected.  With window.fs the function awaits readFile; *)
(* without it the inner throw (128) leads to the fallback at once.         *)
loadQuizData_catch ==
    /\ loading
    /\ lastOp \in {"init", "loadQuizData:response"}
    /\ \E fs \in BOOLEAN :
          IF fs
          THEN LoaderStep("loadQuizData:readFile")
          ELSE LoaderDone(fallbackData, "loadQuizData:fallback")

(* readFile resolves and JSON.parse succeeds (122-126, 180). *)
loadQuizData_readFile ==
    /\ loading
    /\ lastOp = "loadQuizData:readFile"
    /\ \E parsedData \in SessionCatalogs : LoaderDone(parsedData, "loadQuizData:fs")

(* readFile rejects or JSON.parse throws (130-178, 180). *)
loadQuizData_fsError ==
    /\ loading
    /\ lastOp = "loadQuizData:readFile"
    /\ LoaderDone(fallbackData, "loadQuizData:fallback")

(* loadQuizData of the basic variant on any failure (QuizApp.tsx 72-103). *)
basic_loadQuizData_catch ==
    /\ loading
    /\ lastOp = "init"
    /\ LoaderDone(basic_fallbackData, "loadQuizData:fallback")

(***************************************************************************)
(* Extended variant, part_000.                                             *)
(*                                                                         *)
(* QuizView reads quiz.questions[currentQuestionIndex] (691) and renders   *)
(* currentQuestion.questionText (803): with no such question the render    *)
(* throws and React unmounts the application, after which no handler can   *)
(* be invoked.                                                             *)
(***************************************************************************)
QuestionExists(quiz, index) == index >= 0 /\ index < Len(quiz.questions)

RenderThrows ==
    /\ currentView = "quiz"
    /\ processedQuiz # Null
    /\ ~QuestionExists(processedQuiz, currentQuestionIndex)

Shown(view) ==
    /\ ~loading
    /\ quizData # Null
    /\ currentView = view
    /\ ~RenderThrows

currentQuestion == processedQuiz.questions[currentQuestionIndex + 1]

(* A variant that skips the settings view. *)
selectQuiz_toQuiz(quiz) ==
    /\ Shown("home")
    /\ selectedQuiz' = quiz
    /\ currentView' = "quiz"
    /\ lastOp' = "selectQuiz"
    /\ UNCHANGED <<quizData, processedQuiz, currentQuestionIndex, userAnswers,
                   startTime, endTime, loading, quizSettings, selectedAnswer,
                   showResult, timers, now>>

selectQuiz(quiz) ==
    /\ Shown("home")
    /\ selectedQuiz' = quiz
    /\ currentView' = "settings"
    /\ lastOp' = "selectQuiz"
    /\ UNCHANGED <<quizData, processedQuiz, currentQuestionIndex, userAnswers,
                   startTime, endTime, loading, quizSettings, selectedAnswer,
                   showResult, timers, now>>

(* A variant in which a toggle also switches the other two settings on. *)
toggleSetting_linked(setting) ==
    /\ Shown("settings")
    /\ selectedQuiz # Null
    /\ quizSettings' = [s \in DOMAIN quizSettings |->
                           IF s = setting THEN ~quizSettings[s] ELSE TRUE]
    /\ lastOp' = "toggleSetting"
    /\ UNCHANGED <<quizData, currentView, selectedQuiz, processedQuiz,
                   currentQuestionIndex, userAnswers, startTime, endTime, loading,
                   selectedAnswer, showResult, timers, now>>

toggleSetting(setting) ==
    /\ Shown("settings")
    /\ selectedQuiz # Null
    /\ quizSettings' = [quizSettings EXCEPT ![setting] = ~quizSettings[setting]]
    /\ lastOp' = "toggleSetting"
    /\ UNCHANGED <<quizData, currentView, selectedQuiz, processedQuiz,
                   currentQuestionIndex, userAnswers, startTime, endTime, loading,
                   selectedAnswer, showResult, timers, now>>

(* A variant that keeps the answers of the previous attempt. *)
BeginAttempt_keepAnswers(op) ==
    \E quizToUse \in processQuizWithSettings(selectedQuiz, quizSettings), date \in Dates :
        /\ processedQuiz' = quizToUse.ret
        /\ selectedQuiz' = quizToUse.arg
        /\ quizData' = IF quizToUse.arg = selectedQuiz
                       THEN quizData
                       ELSE WriteBack(quizData, quizToUse.arg)
        /\ currentQuestionIndex' = 0
        /\ startTime' = date
        /\ now' = date
        /\ endTime' = NoTime
        /\ currentView' = "quiz"
        /\ lastOp' = op
        /\ UNCHANGED <<userAnswers, loading, quizSettings, selectedAnswer, showResult,
                       timers>>

(* The body shared by startQuiz (225-232) and restartQuiz (297-304). *)
BeginAttempt(op) ==
    \E quizToUse \in processQuizWithSettings(selectedQuiz, quizSettings), date \in Dates :
        /\ processedQuiz' = quizToUse.ret
        /\ selectedQuiz' = quizToUse.arg
        /\ quizData' = IF quizToUse.arg = selectedQuiz
                       THEN quizData
                       ELSE WriteBack(quizData, quizToUse.arg)
        /\ currentQuestionIndex' = 0
        /\ userAnswers' = <<>>
        /\ startTime' = date
        /\ now' = date
        /\ endTime' = NoTime
        /\ currentView' = "quiz"
        /\ lastOp' = op
        /\ UNCHANGED <<loading, quizSettings, selectedAnswer, showResult, timers>>

startQuiz ==
    /\ Shown("settings")
    /\ selectedQuiz # Null
    /\ BeginAttempt("startQuiz")

(* A variant that starts the new attempt at the question that was shown. *)
restartQuiz_keepIndex(op) ==
    IF selectedQuiz # Null
    THEN \E quizToUse \in processQuizWithSettings(selectedQuiz, quizSettings),
            date \in Dates :
             /\ processedQuiz' = quizToUse.ret
             /\ selectedQuiz' = quizToUse.arg
             /\ quizData' = IF quizToUse.arg = selectedQuiz
                            THEN quizData
                            ELSE WriteBack(quizData, quizToUse.arg)
             /\ userAnswers' = <<>>
             /\ startTime' = date
             /\ now' = date
             /\ endTime' = NoTime
             /\ currentView' = "quiz"
             /\ lastOp' = op
             /\ UNCHANGED <<currentQuestionIndex, loading, quizSettings,
                            selectedAnswer, showResult, timers>>
    ELSE lastOp' = op /\
         UNCHANGED <<quizData, currentView, selectedQuiz, processedQuiz,
                     currentQuestionIndex, userAnswers, startTime, endTime, loading,
                     quizSettings, selectedAnswer, showResult, timers, now>>

restartQuiz(op) ==
    IF selectedQuiz # Null
    THEN BeginAttempt(op)
    ELSE lastOp' = op /\
         UNCHANGED <<quizData, currentView, selectedQuiz, processedQuiz,
                     currentQuestionIndex, userAnswers, startTime, endTime, loading,
                     quizSettings, selectedAnswer, showResult, timers, now>>

AnswerIndex(answers, index) ==
    IF \E k \in 1..Len(answers) : answers[k].questionIndex = index
    THEN (CHOOSE k \in 1..Len(answers) :
             /\ answers[k].questionIndex = index
             /\ \A m \in 1..(k - 1) : answers[m].questionIndex # index) - 1
    ELSE -1

(* A variant that scores the selection at once. *)
handleAnswerSelect_scored(answer) ==
    /\ processedQuiz # Null
    /\ LET existingAnswerIndex == AnswerIndex(userAnswers, currentQuestionIndex)
           entry == [questionIndex  |-> currentQuestionIndex,
                     selectedAnswer |-> answer,
                     isCorrect      |-> answer = currentQuestion.correctAnswer]
       IN  IF existingAnswerIndex # -1
           THEN /\ userAnswers' = [userAnswers EXCEPT ![existingAnswerIndex + 1] = entry]
                /\ lastOp' = "handleAnswerSelect:update"
           ELSE /\ userAnswers' = Append(userAnswers, entry)
                /\ lastOp' = "handleAnswerSelect:append"
    /\ UNCHANGED <<quizData, currentView, selectedQuiz, processedQuiz,
                   currentQuestionIndex, startTime, endTime, loading, quizSettings,
                   selectedAnswer, showResult, timers, now>>

(* A variant that skips the findIndex lookup and always appends. *)
handleAnswerSelect_alwaysAppend(answer) ==
    /\ processedQuiz # Null
    /\ userAnswers' = Append(userAnswers, [questionIndex  |-> currentQuestionIndex,
                                           selectedAnswer |-> answer])
    /\ lastOp' = "handleAnswerSelect:append"
    /\ UNCHANGED <<quizData, currentView, selectedQuiz, processedQuiz,
                   currentQuestionIndex, startTime, endTime, loading, quizSettings,
                   selectedAnswer, showResult, timers, now>>

handleAnswerSelect(answer) ==
    /\ processedQuiz # Null
    /\ LET existingAnswerIndex == AnswerIndex(userAnswers, currentQuestionIndex)
           entry == [questionIndex  |-> currentQuestionIndex,
                     selectedAnswer |-> answer]
       IN  IF existingAnswerIndex # -1
           THEN /\ userAnswers' = [userAnswers EXCEPT ![existingAnswerIndex + 1] = entry]
                /\ lastOp' = "handleAnswerSelect:update"
           ELSE /\ userAnswers' = Append(userAnswers, entry)
                /\ lastOp' = "handleAnswerSelect:append"
    /\ UNCHANGED <<quizData, currentView, selectedQuiz, processedQuiz,
                   currentQuestionIndex, startTime, endTime, loading, quizSettings,
                   selectedAnswer, showResult, timers, now>>

(* A variant without the challenge-mode check. *)
QuizView_handleAnswerSelect_noRestart(answer) ==
    /\ Shown("quiz")
    /\ processedQuiz # Null
    /\ answer \in Range(currentQuestion.options)
    /\ handleAnswerSelect(answer)

(* QuizView.handleAnswerSelect (697-708), the onClick of an option button. *)
QuizView_handleAnswerSelect(answer) ==
    /\ Shown("quiz")
    /\ processedQuiz # Null
    /\ answer \in Range(currentQuestion.options)
    /\ IF quizSettings.restartOnIncorrect /\ answer # currentQuestion.correctAnswer
       THEN restartQuiz("handleAnswerSelect:restart")
       ELSE handleAnswerSelect(answer)

(* A variant that moves on only from an answered question. *)
navigateToQuestion_answeredOnly(index) ==
    /\ Shown("quiz")
    /\ processedQuiz # Null
    /\ currentQuestionIndex' =
          IF /\ index >= 0
             /\ index < Len(processedQuiz.questions)
             /\ AnswerIndex(userAnswers, currentQuestionIndex) # -1
          THEN index
          ELSE currentQuestionIndex
    /\ lastOp' = IF index >= 0 /\ index < Len(processedQuiz.questions)
                 THEN "navigateToQuestion"
                 ELSE "navigateToQuestion:ignored"
    /\ UNCHANGED <<quizData, currentView, selectedQuiz, processedQuiz, userAnswers,
                   startTime, endTime, loading, quizSettings, selectedAnswer,
                   showResult, timers, now>>

(* A variant without the range check of 261. *)
navigateToQuestion_noCheck(index) ==
    /\ Shown("quiz")
    /\ processedQuiz # Null
    /\ currentQuestionIndex' = index
    /\ lastOp' = IF index >= 0 /\ index < Len(processedQuiz.questions)
                 THEN "navigateToQuestion"
                 ELSE "navigateToQuestion:ignored"
    /\ UNCHANGED <<quizData, currentView, selectedQuiz, processedQuiz, userAnswers,
                   startTime, endTime, loading, quizSettings, selectedAnswer,
                   showResult, timers, now>>

navigateToQuestion(index) ==
    /\ Shown("quiz")
    /\ processedQuiz # Null
    /\ IF index >= 0 /\ index < Len(processedQuiz.questions)
       THEN /\ currentQuestionIndex' = index
            /\ lastOp' = "navigateToQuestion"
       ELSE /\ currentQuestionIndex' = currentQuestionIndex
            /\ lastOp' = "navigateToQuestion:ignored"
    /\ UNCHANGED <<quizData, currentView, selectedQuiz, processedQuiz, userAnswers,
                   startTime, endTime, loading, quizSettings, selectedAnswer,
                   showResult, timers, now>>

(* A variant that scores every entry against the question on screen. *)
WithResult_current(quiz, answer) ==
    [f \in DOMAIN answer \cup {"isCorrect"} |->
        IF f = "isCorrect"
        THEN answer.selectedAnswer = quiz.questions[currentQuestionIndex + 1].correctAnswer
        ELSE answer[f]]

WithResult(quiz, answer) ==
    [f \in DOMAIN answer \cup {"isCorrect"} |->
        IF f = "isCorrect"
        THEN answer.selectedAnswer = quiz.questions[answer.questionIndex + 1].correctAnswer
        ELSE answer[f]]

(* A variant that processes the selected quiz again on submit. *)
submitQuiz_reprocess ==
    /\ Shown("quiz")
    /\ processedQuiz # Null
    /\ \E date \in Dates :
        /\ userAnswers' = [k \in 1..Len(userAnswers) |->
                              WithResult(processedQuiz, userAnswers[k])]
        /\ endTime' = date
        /\ now' = date
    /\ \E quizToUse \in processQuizWithSettings(selectedQuiz, quizSettings) :
          processedQuiz' = quizToUse.ret
    /\ currentView' = "results"
    /\ lastOp' = "submitQuiz"
    /\ UNCHANGED <<quizData, selectedQuiz, currentQuestionIndex, startTime, loading,
                   quizSettings, selectedAnswer, showResult, timers>>

submitQuiz ==
    /\ Shown("quiz")
    /\ processedQuiz # Null
    /\ \E date \in Dates :
        /\ userAnswers' = [k \in 1..Len(userAnswers) |->
                              WithResult(processedQuiz, userAnswers[k])]
        /\ endTime' = date
        /\ now' = date
    /\ currentView' = "results"
    /\ lastOp' = "submitQuiz"
    /\ UNCHANGED <<quizData, selectedQuiz, processedQuiz, currentQuestionIndex,
                   startTime, loading, quizSettings, selectedAnswer, showResult,
                   timers>>

(* A variant that leaves the answer list as it is. *)
resetQuiz_keepAnswers ==
    /\ \/ Shown("settings") /\ selectedQuiz # Null
       \/ Shown("quiz") /\ processedQuiz # Null
       \/ Shown("results") /\ processedQuiz # Null
    /\ currentView' = "home"
    /\ selectedQuiz' = Null
    /\ processedQuiz' = Null
    /\ currentQuestionIndex' = 0
    /\ startTime' = NoTime
    /\ endTime' = NoTime
    /\ lastOp' = "resetQuiz"
    /\ UNCHANGED <<quizData, userAnswers, loading, quizSettings, selectedAnswer,
                   showResult, timers, now>>

resetQuiz ==
    /\ \/ Shown("settings") /\ selectedQuiz # Null
       \/ Shown("quiz") /\ processedQuiz # Null
       \/ Shown("results") /\ processedQuiz # Null
    /\ currentView' = "home"
    /\ selectedQuiz' = Null
    /\ processedQuiz' = Null
    /\ currentQuestionIndex' = 0
    /\ userAnswers' = <<>>
    /\ startTime' = NoTime
    /\ endTime' = NoTime
    /\ lastOp' = "resetQuiz"
    /\ UNCHANGED <<quizData, loading, quizSettings, selectedAnswer, showResult,
                   timers, now>>

(* ResultsView's Retake Quiz button (1029). *)
ResultsView_onRestart ==
    /\ Shown("results")
    /\ processedQuiz # Null
    /\ restartQuiz("restartQuiz")

(* The quizzes HomeView offers: every catalog quiz (499) and the Master   *)
(* Challenge built at the click (463).                                     *)
Selectable == Range(quizData.quizzes) \cup {createAllQuestionsQuiz(quizData)}

SettingNames == {"shuffleQuestions", "shuffleAnswers", "restartOnIncorrect"}

(* A variant that truncates to whole seconds. *)
RoundedSeconds_floor(ms) == ms \div 1000

(* Math.round(ms / 1000): one correctly rounded division, and n + 1/2 is  *)
(* a double, so the result is the exact quotient rounded half up.          *)
RoundedSeconds(ms) == (ms + 500) \div 1000

IsCorrect(answer) == "isCorrect" \in DOMAIN answer /\ answer.isCorrect

CountCorrect(answers) == Cardinality({k \in 1..Len(answers) : IsCorrect(answers[k])})

Duration ==
    IF startTime # NoTime /\ endTime # NoTime
    THEN RoundedSeconds(endTime - startTime)
    ELSE 0

(* calculateResults (part_000 308-340), evaluated when ResultsView renders. *)
calculateResults ==
    IF processedQuiz = Null
    THEN [correctAnswers |-> 0, totalQuestions |-> 0, answeredQuestions |-> 0,
          percentage |-> 0, duration |-> 0]
    ELSE LET correctAnswers == CountCorrect(userAnswers)
             totalQuestions == Len(processedQuiz.questions)
         IN  [correctAnswers    |-> correctAnswers,
              totalQuestions    |-> totalQuestions,
              answeredQuestions |-> Len(userAnswers),
              percentage        |-> IF totalQuestions > 0
                                    THEN RoundedPercentage(correctAnswers, totalQuestions)
                                    ELSE 0,
              duration          |-> Duration]

(***************************************************************************)
(* The events of the extended variant: the fetch answering, and a click on *)
(* a control of the view that is shown.                                    *)
(***************************************************************************)
FetchResolves == \E parsedData \in SessionCatalogs : loadQuizData(parsedData)

ClickSelectQuiz == Shown("home") /\ \E quiz \in Selectable : selectQuiz(quiz)

ClickToggle == \E setting \in SettingNames : toggleSetting(setting)

ClickOption ==
    /\ Shown("quiz")
    /\ processedQuiz # Null
    /\ \E answer \in Range(currentQuestion.options) : QuizView_handleAnswerSelect(answer)

(* navigateToQuestion is called with the index of a grid button (760) or   *)
(* with a neighbour of the current index (851, 864); the two indices just  *)
(* outside the quiz are passed as well, to run the range check of 261.     *)
ClickNavigate ==
    /\ Shown("quiz")
    /\ processedQuiz # Null
    /\ \E index \in -1..Len(processedQuiz.questions) : navigateToQuestion(index)

Next ==
    \/ FetchResolves
    \/ ClickSelectQuiz
    \/ ClickToggle
    \/ startQuiz
    \/ ClickOption
    \/ ClickNavigate
    \/ submitQuiz
    \/ resetQuiz
    \/ ResultsView_onRestart

Spec == Init /\ [][Next]_vars

(***************************************************************************)
(* Basic variant, src/my-quiz-app/src/QuizApp.tsx.                         *)
(*                                                                         *)
(* QuizView renders currentQuestion.questionText (337, 374) and            *)
(* ResultsView renders quiz.quiz (496) of selectedQuiz!: with no such      *)
(* question, or with no selected quiz, the render throws and React         *)
(* unmounts the application; state updates that arrive later are dropped.  *)
(***************************************************************************)
basic_RenderThrows ==
    \/ /\ currentView = "quiz"
       /\ selectedQuiz # Null
       /\ ~QuestionExists(selectedQuiz, currentQuestionIndex)
    \/ /\ currentView = "results"
       /\ selectedQuiz = Null

basic_Shown(view) ==
    /\ ~loading
    /\ quizData # Null
    /\ currentView = view
    /\ ~basic_RenderThrows

basic_currentQuestion == selectedQuiz.questions[currentQuestionIndex + 1]

(* A variant that keeps the answers of the previous attempt. *)
basic_startQuiz_keepAnswers(quiz) ==
    /\ selectedQuiz' = quiz
    /\ currentQuestionIndex' = 0
    /\ selectedAnswer' = EmptyString
    /\ showResult' = FALSE
    /\ \E date \in Dates : startTime' = date /\ now' = date
    /\ endTime' = NoTime
    /\ currentView' = "quiz"
    /\ lastOp' = "startQuiz"
    /\ UNCHANGED <<quizData, processedQuiz, userAnswers, loading, quizSettings, timers>>

basic_startQuiz(quiz) ==
    /\ selectedQuiz' = quiz
    /\ currentQuestionIndex' = 0
    /\ userAnswers' = <<>>
    /\ selectedAnswer' = EmptyString
    /\ showResult' = FALSE
    /\ \E date \in Dates : startTime' = date /\ now' = date
    /\ endTime' = NoTime
    /\ currentView' = "quiz"
    /\ lastOp' = "startQuiz"
    /\ UNCHANGED <<quizData, processedQuiz, loading, quizSettings, timers>>

basic_handleAnswerSelect(answer) ==
    /\ selectedAnswer' = answer
    /\ lastOp' = "handleAnswerSelect"
    /\ UNCHANGED <<quizData, currentView, selectedQuiz, processedQuiz,
                   currentQuestionIndex, userAnswers, startTime, endTime, loading,
                   quizSettings, showResult, timers, now>>

(* A variant that scores the selection against the first option. *)
basic_submitAnswer_firstOption ==
    /\ selectedQuiz # Null
    /\ selectedAnswer # EmptyString
    /\ userAnswers' = Append(userAnswers,
           [questionIndex  |-> currentQuestionIndex,
            selectedAnswer |-> selectedAnswer,
            isCorrect      |-> selectedAnswer = basic_currentQuestion.options[1]])
    /\ showResult' = TRUE
    /\ timers' = Append(timers, [currentQuestionIndex |-> currentQuestionIndex,
                                 selectedQuiz         |-> selectedQuiz])
    /\ lastOp' = "submitAnswer"
    /\ UNCHANGED <<quizData, currentView, selectedQuiz, processedQuiz,
                   currentQuestionIndex, startTime, endTime, loading,
                   quizSettings, selectedAnswer, now>>

(* submitAnswer (123-149) up to the setTimeout call; the callback closes   *)
(* over the currentQuestionIndex and selectedQuiz of this render.          *)
basic_submitAnswer ==
    IF selectedQuiz = Null \/ selectedAnswer = EmptyString
    THEN /\ lastOp' = "submitAnswer:return"
         /\ UNCHANGED <<quizData, currentView, selectedQuiz, processedQuiz,
                        currentQuestionIndex, userAnswers, startTime, endTime,
                        loading, quizSettings, selectedAnswer, showResult, timers,
                        now>>
    ELSE /\ userAnswers' = Append(userAnswers,
                [questionIndex  |-> currentQuestionIndex,
                 selectedAnswer |-> selectedAnswer,
                 isCorrect      |-> selectedAnswer = basic_currentQuestion.correctAnswer])
         /\ showResult' = TRUE
         /\ timers' = Append(timers, [currentQuestionIndex |-> currentQuestionIndex,
                                      selectedQuiz         |-> selectedQuiz])
         /\ lastOp' = "submitAnswer"
         /\ UNCHANGED <<quizData, currentView, selectedQuiz, processedQuiz,
                        currentQuestionIndex, startTime, endTime, loading,
                        quizSettings, selectedAnswer, now>>

(* The setTimeout callback (139-148) of the oldest pending timer: equal    *)
(* delays fire in the order they were set.                                 *)
basic_timeout ==
    /\ timers # <<>>
    /\ timers' = Tail(timers)
    /\ LET closure == Head(timers)
       IN  IF basic_RenderThrows
           THEN /\ lastOp' = "timeout:unmounted"
                /\ UNCHANGED <<currentView, currentQuestionIndex, selectedAnswer,
                               showResult, endTime, now>>
           ELSE IF closure.currentQuestionIndex < Len(closure.selectedQuiz.questions) - 1
           THEN /\ currentQuestionIndex' = closure.currentQuestionIndex + 1
                /\ selectedAnswer' = EmptyString
                /\ showResult' = FALSE
                /\ lastOp' = "timeout:next"
                /\ UNCHANGED <<currentView, endTime, now>>
           ELSE /\ \E date \in Dates : endTime' = date /\ now' = date
                /\ currentView' = "results"
                /\ lastOp' = "timeout:results"
                /\ UNCHANGED <<currentQuestionIndex, selectedAnswer, showResult>>
    /\ UNCHANGED <<quizData, selectedQuiz, processedQuiz, userAnswers, startTime,
                   loading, quizSettings>>

basic_resetQuiz ==
    /\ \/ basic_Shown("quiz") /\ selectedQuiz # Null
       \/ basic_Shown("results")
    /\ currentView' = "home"
    /\ selectedQuiz' = Null
    /\ currentQuestionIndex' = 0
    /\ userAnswers' = <<>>
    /\ selectedAnswer' = EmptyString
    /\ showResult' = FALSE
    /\ startTime' = NoTime
    /\ endTime' = NoTime
    /\ lastOp' = "resetQuiz"
    /\ UNCHANGED <<quizData, processedQuiz, loading, quizSettings, timers, now>>

(* calculateResults (162-174), evaluated when the results view renders. *)
basic_calculateResults ==
    [correctAnswers |-> CountCorrect(userAnswers),
     totalQuestions |-> Len(userAnswers),
     percentage     |-> RoundedPercentage(CountCorrect(userAnswers), Len(userAnswers)),
     duration       |-> Duration]

(***************************************************************************)
(* The events of the basic variant.                                        *)
(***************************************************************************)
basic_ClickStartQuiz ==
    /\ basic_Shown("home")
    /\ \E quiz \in Range(quizData.quizzes) : basic_startQuiz(quiz)

(* A variant whose option buttons stay active while feedback is shown. *)
basic_ClickOption_always ==
    /\ basic_Shown("quiz")
    /\ selectedQuiz # Null
    /\ \E option \in Range(basic_currentQuestion.options) :
          basic_handleAnswerSelect(option)

basic_ClickOption ==
    /\ basic_Shown("quiz")
    /\ selectedQuiz # Null
    /\ ~showResult
    /\ \E option \in Range(basic_currentQuestion.options) :
          basic_handleAnswerSelect(option)

(* The Submit Answer button (417-425) is rendered while no feedback is     *)
(* shown and is disabled while nothing is selected.                        *)
basic_ClickSubmitAnswer ==
    /\ basic_Shown("quiz")
    /\ selectedQuiz # Null
    /\ ~showResult
    /\ selectedAnswer # EmptyString
    /\ Len(timers) < MaxTimers
    /\ basic_submitAnswer

(* submitAnswer called while nothing is selected: the button is disabled  *)
(* then (419), and the call ends at the return of 124.                     *)
basic_SubmitNothingSelected ==
    /\ basic_Shown("quiz")
    /\ selectedQuiz # Null
    /\ ~showResult
    /\ selectedAnswer = EmptyString
    /\ basic_submitAnswer

basic_ClickRetake ==
    /\ basic_Shown("results")
    /\ basic_startQuiz(selectedQuiz)

basic_FetchResolves == \E parsedData \in Catalogs : loadQuizData(parsedData)

basic_Next ==
    \/ basic_FetchResolves
    \/ basic_loadQuizData_catch
    \/ basic_ClickStartQuiz
    \/ basic_ClickOption
    \/ basic_ClickSubmitAnswer
    \/ basic_SubmitNothingSelected
    \/ basic_timeout
    \/ basic_resetQuiz
    \/ basic_ClickRetake

SpecBasic == Init /\ [][basic_Next]_vars

(***************************************************************************)
(* The extended variant on the longer quizzes of Catalogs, for a user who  *)
(* starts, submits and retakes without answering: every quiz the shuffles  *)
(* can produce from a quiz of up to MaxQuestions + 1 questions.            *)
(***************************************************************************)
FetchResolvesLong == \E parsedData \in Catalogs : loadQuizData(parsedData)

NextShuffle ==
    \/ FetchResolvesLong
    \/ ClickSelectQuiz
    \/ ClickToggle
    \/ startQuiz
    \/ submitQuiz
    \/ resetQuiz
    \/ ResultsView_onRestart

SpecShuffle == Init /\ [][NextShuffle]_vars

(***************************************************************************)
(* The extended variant with every outcome of loadQuizData, for a user who *)
(* leaves the settings as they are.  The promises of fetch, response.json  *)
(* and readFile settle, so a continuation that is enabled runs.            *)
(***************************************************************************)
LoaderNext ==
    \/ loadQuizData_fetchOk
    \/ loadQuizData_json
    \/ loadQuizData_catch
    \/ loadQuizData_readFile
    \/ loadQuizData_fsError

NextLoader ==
    \/ LoaderNext
    \/ ClickSelectQuiz
    \/ startQuiz
    \/ ClickOption
    \/ ClickNavigate
    \/ submitQuiz
    \/ resetQuiz
    \/ ResultsView_onRestart

SpecLoader == Init /\ [][NextLoader]_vars /\ WF_vars(LoaderNext)

(***************************************************************************)
(* Scoring on longer quizzes (extended variant): the session just before   *)
(* Submit Quiz, in a quiz of 1..MaxScoreTotal questions of which the first *)
(* c have been answered, each with its correct option.                     *)
(***************************************************************************)
ScoreQuiz(total) == Quiz(<<total>>, 1)

InitScore ==
    \E total \in 1..MaxScoreTotal, correct \in 0..MaxScoreTotal :
        /\ correct <= total
        /\ quizData = Catalog(<<total>>, 1)
        /\ currentView = "quiz"
        /\ selectedQuiz = ScoreQuiz(total)
        /\ processedQuiz = ScoreQuiz(total)
        /\ currentQuestionIndex = Max(0, correct - 1)
        /\ userAnswers = [k \in 1..correct |->
                             [questionIndex  |-> k - 1,
                              selectedAnswer |-> ScoreQuiz(total).questions[k].correctAnswer]]
        /\ startTime = 0
        /\ endTime = NoTime
        /\ loading = FALSE
        /\ quizSettings = [shuffleQuestions   |-> FALSE,
                           shuffleAnswers     |-> FALSE,
                           restartOnIncorrect |-> FALSE]
        /\ selectedAnswer = EmptyString
        /\ showResult = FALSE
        /\ timers = <<>>
        /\ now = 0
        /\ lastOp = IF correct = 0 THEN "startQuiz" ELSE "handleAnswerSelect:append"

NextScore == submitQuiz \/ resetQuiz

SpecScore == InitScore /\ [][NextScore]_vars

(***************************************************************************)
(* Properties.                                                             *)
(***************************************************************************)
OptionButtons ==
    IF Shown("quiz") /\ processedQuiz # Null
    THEN Range(currentQuestion.options)
    ELSE {}

HasAnswer(answers, index) == \E k \in 1..Len(answers) : answers[k].questionIndex = index

OneEntryPerQuestion(answers) ==
    \A k, m \in 1..Len(answers) :
        answers[k].questionIndex = answers[m].questionIndex => k = m

Upserted(answer) ==
    LET entry == [questionIndex |-> currentQuestionIndex, selectedAnswer |-> answer]
    IN  IF HasAnswer(userAnswers, currentQuestionIndex)
        THEN /\ Len(userAnswers') = Len(userAnswers)
             /\ \A k \in 1..Len(userAnswers) :
                   userAnswers'[k] =
                      IF userAnswers[k].questionIndex = currentQuestionIndex
                      THEN entry
                      ELSE userAnswers[k]
        ELSE userAnswers' = Append(userAnswers, entry)

(* C1: the answer list never holds two entries for one question index, and *)
(* a selection that is recorded (handleAnswerSelect) replaces the entry of *)
(* the current question by the selected option, the length unchanged, or,  *)
(* when the question has no entry, appends exactly one entry for it.       *)
C1_AnswerUpsert ==
    /\ [](OneEntryPerQuestion(userAnswers))
    /\ [][\A answer \in OptionButtons :
            (QuizView_handleAnswerSelect(answer)
               /\ ~(quizSettings.restartOnIncorrect
                      /\ answer # currentQuestion.correctAnswer))
            => Upserted(answer)]_vars

C1_Witness ==
    /\ lastOp = "handleAnswerSelect:update"
    /\ Len(userAnswers) = 2
    /\ userAnswers[1].questionIndex = currentQuestionIndex

(* C2: in challenge mode a click on an option that is not the correct      *)
(* answer of the question on screen, at any question index, records        *)
(* nothing and restarts the attempt: the view stays quiz, the index is 0,  *)
(* the answer list is empty, the start timestamp is a new reading of the   *)
(* clock, the end timestamp is empty, and the processed quiz is an outcome *)
(* of processQuizWithSettings on the selected quiz and the settings.       *)
C2_ChallengeRestart ==
    [][\A answer \in OptionButtons :
          (/\ quizSettings.restartOnIncorrect
           /\ answer # currentQuestion.correctAnswer
           /\ QuizView_handleAnswerSelect(answer))
          => /\ currentView' = "quiz"
             /\ currentQuestionIndex' = 0
             /\ userAnswers' = <<>>
             /\ startTime' \in Dates
             /\ startTime' = now'
             /\ endTime' = NoTime
             /\ quizSettings' = quizSettings
             /\ processedQuiz' \in
                   {quizToUse.ret :
                       quizToUse \in processQuizWithSettings(selectedQuiz, quizSettings)}]_vars

C2_Witness ==
    /\ lastOp = "handleAnswerSelect:restart"
    /\ quizSettings.restartOnIncorrect
    /\ quizSettings.shuffleQuestions
    /\ Len(processedQuiz.questions) = 2
    /\ currentQuestionIndex = 0
    /\ userAnswers = <<>>
    /\ startTime > 0

(* n / d rounded to the nearest integer, halves up (n >= 0, d > 0). *)
Round(n, d) == (2 * n + d) \div (2 * d)

(* C3: in the results view the percentage is round(100 * correctAnswers /  *)
(* totalQuestions), with totalQuestions the number of questions of the     *)
(* processed quiz and correctAnswers the number of answers flagged         *)
(* correct; it is an integer of 0..100, and 0 for a quiz of no questions.  *)
C3_Percentage ==
    (Shown("results") /\ processedQuiz # Null) =>
        LET results == calculateResults
            total   == Len(processedQuiz.questions)
            correct == Cardinality({k \in 1..Len(userAnswers) : userAnswers[k].isCorrect})
        IN  /\ results.totalQuestions = total
            /\ results.correctAnswers = correct
            /\ results.percentage \in 0..100
            /\ results.percentage = IF total = 0 THEN 0 ELSE Round(100 * correct, total)

(* C4: in the results view of the basic variant the total is not 0 and the *)
(* percentage is round(100 * correct / total), an integer of 0..100,       *)
(* whatever clicks and timer callbacks led there.                          *)
C4_BasicPercentage ==
    basic_Shown("results") =>
        LET results == basic_calculateResults
            total   == Len(userAnswers)
            correct == Cardinality({k \in 1..Len(userAnswers) : userAnswers[k].isCorrect})
        IN  /\ results.totalQuestions = total
            /\ total > 0
            /\ results.percentage \in 0..100
            /\ results.percentage = Round(100 * correct, total)

IndexPermutations(n) ==
    {p \in [1..n -> 1..n] : \A i, j \in 1..n : p[i] = p[j] => i = j}

SameImage(a, b) ==
    /\ ("image" \in DOMAIN a) = ("image" \in DOMAIN b)
    /\ "image" \in DOMAIN a => a.image = b.image

SameQuestion(a, b) ==
    /\ a.questionText = b.questionText
    /\ Range(a.options) = Range(b.options)
    /\ a.correctAnswer = b.correctAnswer
    /\ SameImage(a, b)

(* C5: with shuffleQuestions on, a processed quiz (made by startQuiz or    *)
(* restartQuiz) has the N questions of the selected quiz in some           *)
(* permutation, each with its prompt, its options as a set, its correct    *)
(* answer and its image, and numbers them 1..N in the new order.           *)
C5_ShuffleQuestions ==
    (processedQuiz # Null /\ quizSettings.shuffleQuestions) =>
        LET N == Len(selectedQuiz.questions)
        IN  /\ Len(processedQuiz.questions) = N
            /\ \E p \in IndexPermutations(N) :
                  \A i \in 1..N :
                     /\ SameQuestion(processedQuiz.questions[i],
                                     selectedQuiz.questions[p[i]])
                     /\ processedQuiz.questions[i].questionNumber = i

C5_Witness ==
    /\ lastOp = "restartQuiz"
    /\ processedQuiz # Null
    /\ quizSettings.shuffleQuestions
    /\ Len(selectedQuiz.questions) = 3
    /\ processedQuiz.questions[1].questionText = selectedQuiz.questions[3].questionText
    /\ processedQuiz.questions[2].questionText = selectedQuiz.questions[1].questionText

(* C6: no step changes the loaded catalog, and the selected quiz stays the *)
(* quiz that was selected, a quiz of the catalog or its Master Challenge,  *)
(* until the session is reset: question order, question numbers and option *)
(* order are as loaded.                                                    *)
C6_CatalogUnchanged ==
    /\ [](selectedQuiz # Null => selectedQuiz \in Selectable)
    /\ [][/\ quizData # Null => quizData' = quizData
          /\ (selectedQuiz # Null /\ selectedQuiz' # Null) => selectedQuiz' = selectedQuiz
         ]_vars

C6_Witness ==
    /\ lastOp = "restartQuiz"
    /\ quizSettings.shuffleQuestions
    /\ quizSettings.shuffleAnswers
    /\ selectedQuiz.quiz = "Master Challenge"
    /\ selectedQuiz = createAllQuestionsQuiz(quizData)
    /\ processedQuiz.questions[1].questionText # selectedQuiz.questions[1].questionText
    /\ processedQuiz.questions[1].options # selectedQuiz.questions[2].options

Occurrences(options, option) ==
    Cardinality({k \in 1..Len(options) : options[k] = option})

SameOptions(a, b) ==
    \A option \in Range(a) \cup Range(b) : Occurrences(a, option) = Occurrences(b, option)

(* C7: with shuffleAnswers on, every question of the processed quiz has    *)
(* the options of the question of the selected quiz it comes from, each as *)
(* many times, and its correct answer; and in every state the correct      *)
(* answer of every question of the processed quiz is one of its options.   *)
C7_ShuffleAnswers ==
    processedQuiz # Null =>
        \A k \in 1..Len(processedQuiz.questions) :
            LET question == processedQuiz.questions[k]
            IN  /\ question.correctAnswer \in Range(question.options)
                /\ quizSettings.shuffleAnswers =>
                      \E m \in 1..Len(selectedQuiz.questions) :
                          /\ quizSettings.shuffleQuestions \/ m = k
                          /\ selectedQuiz.questions[m].questionText = question.questionText
                          /\ SameOptions(question.options, selectedQuiz.questions[m].options)
                          /\ question.correctAnswer = selectedQuiz.questions[m].correctAnswer

C7_Witness ==
    /\ lastOp = "startQuiz"
    /\ quizSettings.shuffleAnswers
    /\ ~quizSettings.shuffleQuestions
    /\ Len(processedQuiz.questions) = 3
    /\ \A k \in 1..3 :
          processedQuiz.questions[k].options # selectedQuiz.questions[k].options

RECURSIVE QuestionsBefore(_, _)
QuestionsBefore(quizzes, i) ==
    IF i <= 1 THEN 0
    ELSE QuestionsBefore(quizzes, i - 1) + Len(quizzes[i - 1].questions)

(* C8: the quiz createAllQuestionsQuiz makes of the catalog is named       *)
(* "Master Challenge"; its questions are those of the catalog quizzes, one *)
(* quiz after the other in catalog order, as many as they have together;   *)
(* each has its 1-based position as questionNumber and every other field   *)
(* as in the catalog.                                                      *)
C8_MasterChallenge ==
    quizData # Null =>
        LET master  == createAllQuestionsQuiz(quizData)
            quizzes == quizData.quizzes
        IN  /\ master.quiz = "Master Challenge"
            /\ Len(master.questions) = QuestionsBefore(quizzes, Len(quizzes) + 1)
            /\ \A i \in 1..Len(quizzes) :
                  \A j \in 1..Len(quizzes[i].questions) :
                     LET position == QuestionsBefore(quizzes, i) + j
                         copy     == master.questions[position]
                         original == quizzes[i].questions[j]
                     IN  /\ copy.questionNumber = position
                         /\ DOMAIN copy = DOMAIN original
                         /\ \A f \in DOMAIN original \ {"questionNumber"} :
                               copy[f] = original[f]

C8_Witness ==
    /\ Shown("settings")
    /\ selectedQuiz # Null
    /\ selectedQuiz.quiz = "Master Challenge"
    /\ Len(quizData.quizzes) = 2
    /\ Len(selectedQuiz.questions) = 3
    /\ quizData.quizzes[2].questions[1].questionNumber = 1
    /\ selectedQuiz.questions[3].questionNumber = 3

(* C9: submitQuiz in the quiz view keeps the entries of the answer list,   *)
(* their question indices and selections, adds none and removes none;      *)
(* flags an entry correct exactly when its selection is the correctAnswer  *)
(* of the processed-quiz question at the entry's index; sets the end       *)
(* timestamp; and shows the results view.                                  *)
C9_Submit ==
    [][submitQuiz =>
          /\ Len(userAnswers') = Len(userAnswers)
          /\ \A k \in 1..Len(userAnswers) :
                /\ userAnswers'[k].questionIndex = userAnswers[k].questionIndex
                /\ userAnswers'[k].selectedAnswer = userAnswers[k].selectedAnswer
                /\ userAnswers'[k].isCorrect =
                      (userAnswers[k].selectedAnswer =
                         processedQuiz.questions[userAnswers[k].questionIndex + 1]
                            .correctAnswer)
          /\ endTime' # NoTime
          /\ endTime' = now'
          /\ currentView' = "results"
          /\ processedQuiz' = processedQuiz]_vars

C9_Witness ==
    /\ lastOp = "submitQuiz"
    /\ currentView = "results"
    /\ Len(processedQuiz.questions) = 2
    /\ Len(userAnswers) = 1
    /\ userAnswers[1].questionIndex = 1
    /\ userAnswers[1].isCorrect
    /\ currentQuestionIndex = 0
    /\ endTime > startTime

(* C10: whenever the quiz view is the current view, the current question   *)
(* index is at least 0 and less than the number of questions of the        *)
(* processed quiz, whichever quiz of the home view was selected, the       *)
(* Master Challenge included.                                              *)
C10_IndexInRange ==
    (~loading /\ quizData # Null /\ currentView = "quiz" /\ processedQuiz # Null) =>
        /\ 0 <= currentQuestionIndex
        /\ currentQuestionIndex < Len(processedQuiz.questions)

(* C11: whenever the quiz view of the basic variant is the current view,   *)
(* the current question index is at least 0 and less than the number of    *)
(* questions of the selected quiz, however clicks and timer callbacks      *)
(* interleave.                                                             *)
C11_BasicIndexInRange ==
    (~loading /\ quizData # Null /\ currentView = "quiz" /\ selectedQuiz # Null) =>
        /\ 0 <= currentQuestionIndex
        /\ currentQuestionIndex < Len(selectedQuiz.questions)

(* C12: while no quiz is selected (at first, and from resetQuiz until the  *)
(* user starts a quiz) the basic variant is at home with question index 0, *)
(* no answers, no selection, no feedback and no timestamps; the view is    *)
(* never results with no selected quiz.                                    *)
C12_BasicResetStays ==
    selectedQuiz = Null =>
        /\ currentView = "home"
        /\ currentQuestionIndex = 0
        /\ userAnswers = <<>>
        /\ selectedAnswer = EmptyString
        /\ ~showResult
        /\ startTime = NoTime
        /\ endTime = NoTime

(* C13: a pending auto-advance belongs to the session on screen: the       *)
(* selected quiz and the question index are those of the render in which   *)
(* the answer was submitted, and the last entry of the answer list is the  *)
(* answer submitted then.                                                  *)
C13_NoInterleaving ==
    \A k \in 1..Len(timers) :
        /\ timers[k].selectedQuiz = selectedQuiz
        /\ timers[k].currentQuestionIndex = currentQuestionIndex
        /\ userAnswers # <<>>
        /\ userAnswers[Len(userAnswers)].questionIndex = timers[k].currentQuestionIndex

(* C14: the callback of the delay timer of a submitted answer does exactly *)
(* one of two things: when the submitted question is not the last of its   *)
(* quiz, the question index becomes the submitted index + 1, the selection *)
(* is cleared and the feedback hidden; when it is the last, the end        *)
(* timestamp is set and the view becomes results.                          *)
C14_AutoAdvance ==
    [][basic_timeout =>
          LET closure == Head(timers)
          IN  IF closure.currentQuestionIndex < Len(closure.selectedQuiz.questions) - 1
              THEN /\ currentQuestionIndex' = closure.currentQuestionIndex + 1
                   /\ selectedAnswer' = EmptyString
                   /\ ~showResult'
                   /\ currentView' = currentView
              ELSE /\ endTime' # NoTime
                   /\ endTime' = now'
                   /\ currentView' = "results"
                   /\ currentQuestionIndex' = currentQuestionIndex]_vars

Started(quiz) ==
    /\ selectedQuiz' = quiz
    /\ currentQuestionIndex' = 0
    /\ userAnswers' = <<>>
    /\ selectedAnswer' = EmptyString
    /\ ~showResult'
    /\ startTime' \in Dates
    /\ startTime' = now'
    /\ endTime' = NoTime
    /\ currentView' = "quiz"

StartButtons == IF basic_Shown("home") THEN Range(quizData.quizzes) ELSE {}

(* C16: startQuiz of the basic variant, from a Start Quiz button of home   *)
(* or as Retake Quiz from results, sets the selected quiz (the quiz of the *)
(* button, the quiz just taken), question index 0, no answers, no          *)
(* selection, no feedback, a start timestamp read from the clock, no end   *)
(* timestamp and the view quiz.                                            *)
C16_BasicStart ==
    /\ [][\A quiz \in StartButtons : basic_startQuiz(quiz) => Started(quiz)]_vars
    /\ [][basic_ClickRetake => Started(selectedQuiz)]_vars

C16_Witness ==
    /\ lastOp = "startQuiz"
    /\ currentView = "quiz"
    /\ selectedQuiz # Null
    /\ selectedQuiz.quiz = "Quiz 1"
    /\ userAnswers = <<>>
    /\ startTime = MaxTime * TickMs
    /\ endTime = NoTime
    /\ timers = <<>>

ViewEdges ==
    {<<"home", "settings", "selectQuiz">>,
     <<"settings", "quiz", "startQuiz">>,
     <<"quiz", "results", "submitQuiz">>,
     <<"results", "quiz", "restartQuiz">>,
     <<"settings", "home", "resetQuiz">>,
     <<"quiz", "home", "resetQuiz">>,
     <<"results", "home", "resetQuiz">>}

(* C17: the view of the extended variant changes only from home to         *)
(* settings by selectQuiz, from settings to quiz by startQuiz, from quiz   *)
(* to results by submitQuiz, from results to quiz by restartQuiz, and from *)
(* settings, quiz or results to home by resetQuiz; the challenge-mode      *)
(* restart goes from quiz to quiz.                                         *)
C17_ViewEdges ==
    /\ [][currentView' # currentView =>
             <<currentView, currentView', lastOp'>> \in ViewEdges]_vars
    /\ [][lastOp' = "handleAnswerSelect:restart" =>
             (currentView = "quiz" /\ currentView' = "quiz")]_vars

C17_Witness ==
    /\ lastOp = "restartQuiz"
    /\ currentView = "quiz"
    /\ processedQuiz # Null
    /\ endTime = NoTime
    /\ startTime = MaxTime * TickMs

(* C18: resetQuiz leaves the whole session state at its initial values:    *)
(* no selected quiz, no processed quiz, question index 0, no answers, no   *)
(* timestamps, and the three settings off.                                 *)
C18_ResetDiscards ==
    [][resetQuiz =>
          /\ currentView' = "home"
          /\ selectedQuiz' = Null
          /\ processedQuiz' = Null
          /\ currentQuestionIndex' = 0
          /\ userAnswers' = <<>>
          /\ startTime' = NoTime
          /\ endTime' = NoTime
          /\ quizSettings' = [shuffleQuestions   |-> FALSE,
                              shuffleAnswers     |-> FALSE,
                              restartOnIncorrect |-> FALSE]]_vars

(* C19: when the fetch of the catalog has failed, the catalog in use after *)
(* loading is the embedded fallback catalog, one demo quiz of one to three *)
(* questions, and window.fs, or any other source, is never read.           *)
C19_FallbackOnFailure ==
    /\ lastOp # "loadQuizData:readFile"
    /\ lastOp \in {"loadQuizData:fs", "loadQuizData:fallback"} =>
          /\ quizData = fallbackData
          /\ Len(quizData.quizzes) = 1
          /\ Len(quizData.quizzes[1].questions) \in 1..3

SessionState ==
    <<currentView, selectedQuiz, processedQuiz, currentQuestionIndex, userAnswers,
      startTime, endTime, quizSettings, selectedAnswer, showResult, timers>>

(* C20: the loading flag is true at first; on every outcome of the load it *)
(* becomes false, and it never becomes true again; while it is true no     *)
(* step changes the session; the catalog is set at most once, and not      *)
(* after the flag is cleared.                                              *)
C20_Loading ==
    /\ loading = TRUE
    /\ quizData = Null
    /\ (loading = TRUE) ~> (loading = FALSE)
    /\ [][~loading => ~loading']_vars
    /\ [][loading => UNCHANGED SessionState]_vars
    /\ [][quizData' # quizData => (loading /\ quizData = Null)]_vars

C20_Witness ==
    /\ ~loading
    /\ quizData = fallbackData
    /\ currentView = "results"
    /\ Len(userAnswers) = 3

(***************************************************************************)
(* The indices a navigation control of the quiz view can name: the grid    *)
(* buttons (760) and the in-range neighbours of the current index.         *)
(***************************************************************************)
NavigableIndices ==
    IF Shown("quiz") /\ processedQuiz # Null
    THEN 0..(Len(processedQuiz.questions) - 1)
    ELSE {}

(***************************************************************************)
(* C21: navigateToQuestion(i) with 0 <= i < N sets the current question    *)
(* index to i, whether or not the current or the target question has a     *)
(* recorded answer, and changes nothing else: the answers, the processed   *)
(* quiz, the timestamps, the settings, the view, the selected quiz and the *)
(* catalog stay as they were.                                              *)
(***************************************************************************)
C21_NavigateFrame ==
    [][\A index \in NavigableIndices :
          navigateToQuestion(index) =>
              /\ currentQuestionIndex' = index
              /\ UNCHANGED <<quizData, currentView, selectedQuiz, processedQuiz,
                             userAnswers, startTime, endTime, loading, quizSettings,
                             selectedAnswer, showResult, timers, now>>]_vars

(* A move to the second question while no question has an answer. *)
C21_Witness ==
    /\ lastOp = "navigateToQuestion"
    /\ currentQuestionIndex = 1
    /\ userAnswers = <<>>

(***************************************************************************)
(* C22: in every reachable state correctCount <= answeredCount <=          *)
(* totalQuestions, as calculateResults computes them from the answer list  *)
(* and the processed quiz.                                                 *)
(***************************************************************************)
C22_CountsOrdered ==
    /\ calculateResults.correctAnswers <= calculateResults.answeredQuestions
    /\ calculateResults.answeredQuestions <= calculateResults.totalQuestions
    /\ processedQuiz # Null =>
          /\ calculateResults.answeredQuestions = Len(userAnswers)
          /\ calculateResults.totalQuestions = Len(processedQuiz.questions)

(* Results of a two-question attempt, both answered, one of them correctly. *)
C22_Witness ==
    /\ Shown("results")
    /\ calculateResults.totalQuestions = 2
    /\ calculateResults.answeredQuestions = 2
    /\ calculateResults.correctAnswers = 1

(***************************************************************************)
(* C23: while the quiz view is current no answer entry carries a           *)
(* correctness flag; entries carry the flag only while the view is         *)
(* results.                                                                *)
(***************************************************************************)
C23_FlagsOnlyInResults ==
    /\ currentView = "quiz" =>
          \A k \in 1..Len(userAnswers) : "isCorrect" \notin DOMAIN userAnswers[k]
    /\ (\E k \in 1..Len(userAnswers) : "isCorrect" \in DOMAIN userAnswers[k]) =>
          currentView = "results"

(* The quiz view after an answer was changed, two entries recorded. *)
C23_Witness ==
    /\ Shown("quiz")
    /\ lastOp = "handleAnswerSelect:update"
    /\ Len(userAnswers) = 2

(***************************************************************************)
(* C24: the processed quiz is computed only by startQuiz and restartQuiz   *)
(* (from the results view or by a wrong answer in challenge mode); an      *)
(* answer selection that is not a restart, a navigation and submitQuiz     *)
(* leave it unchanged.                                                     *)
(***************************************************************************)
C24_ProcessedQuizFrame ==
    [][/\ lastOp' \in {"handleAnswerSelect:update", "handleAnswerSelect:append",
                       "navigateToQuestion", "navigateToQuestion:ignored",
                       "submitQuiz"} =>
              processedQuiz' = processedQuiz
       /\ (processedQuiz' # processedQuiz /\ processedQuiz' # Null) =>
              lastOp' \in {"startQuiz", "restartQuiz", "handleAnswerSelect:restart"}]_vars

(* Results of an attempt whose questions were put in another order. *)
C24_Witness ==
    /\ lastOp = "submitQuiz"
    /\ quizSettings.shuffleQuestions
    /\ Len(processedQuiz.questions) = 2
    /\ processedQuiz.questions[1].questionText = selectedQuiz.questions[2].questionText
    /\ Len(userAnswers) = 2

(***************************************************************************)
(* C25: a toggle flips exactly the named setting and leaves the other two  *)
(* settings and all other session state unchanged; the settings change     *)
(* only in the settings view, so they are constant throughout an attempt.  *)
(***************************************************************************)
C25_ToggleFrame ==
    [][/\ \A setting \in SettingNames :
              toggleSetting(setting) =>
                  /\ quizSettings'[setting] = ~quizSettings[setting]
                  /\ \A other \in SettingNames \ {setting} :
                         quizSettings'[other] = quizSettings[other]
                  /\ UNCHANGED <<quizData, currentView, selectedQuiz, processedQuiz,
                                 currentQuestionIndex, userAnswers, startTime, endTime,
                                 loading, selectedAnswer, showResult, timers, now>>
       /\ quizSettings' # quizSettings =>
              /\ currentView = "settings"
              /\ currentView' = "settings"
              /\ lastOp' = "toggleSetting"]_vars

(* A toggle that switched one setting off while another stays on. *)
C25_Witness ==
    /\ lastOp = "toggleSetting"
    /\ currentView = "settings"
    /\ quizSettings.shuffleAnswers
    /\ ~quizSettings.shuffleQuestions
    /\ quizSettings.restartOnIncorrect

(***************************************************************************)
(* C26: in both variants, whenever the results view is shown the start and *)
(* the end timestamp are set, the end timestamp is not earlier than the    *)
(* start timestamp of the current attempt, and the reported duration is    *)
(* (end - start) milliseconds divided by 1000 and rounded to whole         *)
(* seconds, hence non-negative.  The basic variant never sets the          *)
(* processed quiz, the extended variant shows no results without one.      *)
(***************************************************************************)
C26_Duration ==
    /\ (basic_Shown("results") /\ processedQuiz = Null) =>
          /\ startTime # NoTime
          /\ endTime # NoTime
          /\ endTime >= startTime
          /\ basic_calculateResults.duration = Round(endTime - startTime, 1000)
          /\ basic_calculateResults.duration >= 0
    /\ (Shown("results") /\ processedQuiz # Null) =>
          /\ startTime # NoTime
          /\ endTime # NoTime
          /\ endTime >= startTime
          /\ calculateResults.duration = Round(endTime - startTime, 1000)
          /\ calculateResults.duration >= 0

(* Results of the basic variant after half a second, reported as 1 s. *)
C26_Witness ==
    /\ basic_Shown("results")
    /\ processedQuiz = Null
    /\ endTime - startTime = TickMs
    /\ basic_calculateResults.duration = 1

(* The same in the extended variant. *)
C26_WitnessExtended ==
    /\ Shown("results")
    /\ processedQuiz # Null
    /\ endTime - startTime = TickMs
    /\ calculateResults.duration = 1

(***************************************************************************)
(* C27: in challenge mode, while the view is quiz every entry of the       *)
(* answer list holds the correct answer of the processed-quiz question at  *)
(* its index; consequently, after submit in challenge mode the number of   *)
(* correct answers equals the number of answered questions.                *)
(***************************************************************************)
C27_ChallengeAllCorrect ==
    quizSettings.restartOnIncorrect =>
        /\ (currentView = "quiz" /\ processedQuiz # Null) =>
              \A k \in 1..Len(userAnswers) :
                  /\ QuestionExists(processedQuiz, userAnswers[k].questionIndex)
                  /\ userAnswers[k].selectedAnswer =
                        processedQuiz.questions[userAnswers[k].questionIndex + 1].correctAnswer
        /\ (currentView = "results" /\ processedQuiz # Null) =>
              calculateResults.correctAnswers = calculateResults.answeredQuestions

(* Results of a challenge-mode attempt with two answers. *)
C27_Witness ==
    /\ Shown("results")
    /\ lastOp = "submitQuiz"
    /\ quizSettings.restartOnIncorrect
    /\ calculateResults.answeredQuestions = 2
    /\ calculateResults.correctAnswers = 2

(***************************************************************************)
(* C28: in the basic variant, whenever the results view is shown the       *)
(* answer list has exactly one entry for every question of the selected    *)
(* quiz, in increasing question-index order, so that its length and the    *)
(* total used for scoring equal the number of questions, for every         *)
(* interleaving of user actions and timer firings.                         *)
(***************************************************************************)
C28_BasicAnswersComplete ==
    basic_Shown("results") =>
        /\ Len(userAnswers) = Len(selectedQuiz.questions)
        /\ \A k \in 1..Len(userAnswers) : userAnswers[k].questionIndex = k - 1
        /\ basic_calculateResults.totalQuestions = Len(selectedQuiz.questions)

(***************************************************************************)
(* C29: view and session fields agree in every reachable state.            *)
(***************************************************************************)
C29_ViewFields ==
    /\ currentView = "settings" => selectedQuiz # Null
    /\ currentView = "quiz" =>
          /\ processedQuiz # Null
          /\ startTime # NoTime
          /\ endTime = NoTime
    /\ currentView = "results" =>
          /\ processedQuiz # Null
          /\ startTime # NoTime
          /\ endTime # NoTime
    /\ currentView = "home" =>
          /\ selectedQuiz = Null
          /\ processedQuiz = Null
          /\ userAnswers = <<>>
          /\ startTime = NoTime
          /\ endTime = NoTime

(* Home again after an attempt that took time. *)
C29_Witness ==
    /\ Shown("home")
    /\ lastOp = "resetQuiz"
    /\ now > 0

(***************************************************************************)
(* C30: every entry of the answer list has a question index within the     *)
(* current processed quiz and a selection that is one of the options of    *)
(* the processed-quiz question at that index; no entry survives a rebuild  *)
(* of the processed quiz by startQuiz or restartQuiz, and without a        *)
(* processed quiz there is no entry.                                       *)
(***************************************************************************)
C30_AnswersMatchQuiz ==
    /\ [](/\ processedQuiz = Null => userAnswers = <<>>
          /\ processedQuiz # Null =>
                \A k \in 1..Len(userAnswers) :
                    /\ QuestionExists(processedQuiz, userAnswers[k].questionIndex)
                    /\ userAnswers[k].selectedAnswer \in
                          Range(processedQuiz.questions[userAnswers[k].questionIndex + 1].options))
    /\ [][(\/ lastOp' \in {"startQuiz", "handleAnswerSelect:restart"}
           \/ lastOp' = "restartQuiz" /\ selectedQuiz # Null
           \/ processedQuiz' # processedQuiz) => userAnswers' = <<>>]_vars

(* Two answers given to the questions of a quiz put in another order. *)
C30_Witness ==
    /\ Shown("quiz")
    /\ quizSettings.shuffleQuestions
    /\ Len(processedQuiz.questions) = 2
    /\ processedQuiz.questions[1].questionText = selectedQuiz.questions[2].questionText
    /\ Len(userAnswers) = 2

(***************************************************************************)
(* C31: restartQuiz, from the Retake button of the results view or from a  *)
(* wrong answer in challenge mode, keeps the selected quiz and the three   *)
(* settings, sets the question index to 0, empties the answer list (and    *)
(* with it every correctness flag), replaces the start timestamp by the    *)
(* time of the call, clears the end timestamp and shows the quiz view;     *)
(* with no quiz selected it changes nothing.                               *)
(***************************************************************************)
C31_RestartFrame ==
    [][\A op \in {"restartQuiz", "handleAnswerSelect:restart"} :
          restartQuiz(op) =>
              IF selectedQuiz # Null
              THEN /\ selectedQuiz' = selectedQuiz
                   /\ quizSettings' = quizSettings
                   /\ currentQuestionIndex' = 0
                   /\ userAnswers' = <<>>
                   /\ startTime' # NoTime
                   /\ startTime' = now'
                   /\ startTime' >= startTime
                   /\ endTime' = NoTime
                   /\ currentView' = "quiz"
                   /\ processedQuiz' \in
                         {q.ret : q \in processQuizWithSettings(selectedQuiz, quizSettings)}
              ELSE UNCHANGED <<quizData, currentView, selectedQuiz, processedQuiz,
                               currentQuestionIndex, userAnswers, startTime, endTime,
                               loading, quizSettings, selectedAnswer, showResult,
                               timers, now>>]_vars

(* A retake with two settings on, started later than the first attempt. *)
C31_Witness ==
    /\ lastOp = "restartQuiz"
    /\ Shown("quiz")
    /\ quizSettings.shuffleAnswers
    /\ quizSettings.restartOnIncorrect
    /\ startTime = TickMs
    /\ currentQuestionIndex = 0
    /\ userAnswers = <<>>

(* The question of the selected quiz that has the given text. *)
OriginalQuestion(text) ==
    selectedQuiz.questions[IndexOfText(selectedQuiz.questions, text)]

(***************************************************************************)
(* C32: with both shuffle settings off the processed quiz has the          *)
(* questions of the selected quiz in the same order, with the same         *)
(* question numbers and the same option order; with only shuffleAnswers    *)
(* on, question order and question numbers are those of the selected quiz; *)
(* with only shuffleQuestions on, every question has the option order of   *)
(* the original question.                                                  *)
(***************************************************************************)
C32_UnshuffledParts ==
    processedQuiz # Null =>
        /\ (~quizSettings.shuffleQuestions /\ ~quizSettings.shuffleAnswers) =>
              /\ processedQuiz.questions = selectedQuiz.questions
              /\ processedQuiz = selectedQuiz
        /\ (~quizSettings.shuffleQuestions /\ quizSettings.shuffleAnswers) =>
              /\ Len(processedQuiz.questions) = Len(selectedQuiz.questions)
              /\ \A k \in 1..Len(processedQuiz.questions) :
                    /\ processedQuiz.questions[k].questionText =
                          selectedQuiz.questions[k].questionText
                    /\ processedQuiz.questions[k].questionNumber =
                          selectedQuiz.questions[k].questionNumber
                    /\ processedQuiz.questions[k].correctAnswer =
                          selectedQuiz.questions[k].correctAnswer
        /\ (quizSettings.shuffleQuestions /\ ~quizSettings.shuffleAnswers) =>
              \A k \in 1..Len(processedQuiz.questions) :
                  /\ HasText(selectedQuiz.questions,
                             processedQuiz.questions[k].questionText)
                  /\ processedQuiz.questions[k].options =
                        OriginalQuestion(processedQuiz.questions[k].questionText).options

(* Three questions in another order, each with its options as loaded. *)
C32_Witness ==
    /\ lastOp = "startQuiz"
    /\ quizSettings.shuffleQuestions
    /\ ~quizSettings.shuffleAnswers
    /\ Len(processedQuiz.questions) = 3
    /\ processedQuiz.questions[1].questionText = selectedQuiz.questions[2].questionText
    /\ processedQuiz.questions[1].options = selectedQuiz.questions[2].options
    /\ processedQuiz.questions[1].options # selectedQuiz.questions[1].options

(* The same quiz processed with both settings off. *)
C32_WitnessOff ==
    /\ lastOp = "startQuiz"
    /\ ~quizSettings.shuffleQuestions
    /\ ~quizSettings.shuffleAnswers
    /\ Len(processedQuiz.questions) = 3
    /\ processedQuiz = selectedQuiz

(***************************************************************************)
(* The indices outside the quiz that a control can pass: Previous on the   *)
(* first question (851) and Next on the last one (864).                    *)
(***************************************************************************)
IndicesOutside ==
    IF Shown("quiz") /\ processedQuiz # Null
    THEN {-1, Len(processedQuiz.questions)}
    ELSE {}

(***************************************************************************)
(* C33: navigateToQuestion(i) with i < 0 or i >= the number of questions   *)
(* is a no-op: the current question index and every other state variable   *)
(* stay as they were.                                                      *)
(***************************************************************************)
C33_NavigateOutside ==
    [][\A index \in IndicesOutside :
          navigateToQuestion(index) =>
              UNCHANGED <<quizData, currentView, selectedQuiz, processedQuiz,
                          currentQuestionIndex, userAnswers, startTime, endTime,
                          loading, quizSettings, selectedAnswer, showResult, timers,
                          now>>]_vars

(* Next on the last of two questions, one of them answered. *)
C33_Witness ==
    /\ lastOp = "navigateToQuestion:ignored"
    /\ Shown("quiz")
    /\ Len(processedQuiz.questions) = 2
    /\ currentQuestionIndex = 1
    /\ Len(userAnswers) = 1

(***************************************************************************)
(* C34: in the basic variant submitAnswer with no option selected, or with *)
(* no quiz selected, is a no-op: no answer is recorded, no feedback is     *)
(* shown and no advance is scheduled; and while feedback is shown the user *)
(* can neither change the selection nor submit another answer: the         *)
(* selection changes only when the feedback ends, to the empty selection,  *)
(* and the answer list does not grow.                                      *)
(***************************************************************************)
C34_SubmitGuards ==
    [][/\ (basic_submitAnswer /\ (selectedQuiz = Null \/ selectedAnswer = EmptyString)) =>
              UNCHANGED <<quizData, currentView, selectedQuiz, processedQuiz,
                          currentQuestionIndex, userAnswers, startTime, endTime,
                          loading, quizSettings, selectedAnswer, showResult, timers,
                          now>>
       /\ (basic_Shown("quiz") /\ showResult) =>
              /\ lastOp' \notin {"handleAnswerSelect", "submitAnswer",
                                 "submitAnswer:return"}
              /\ selectedAnswer' # selectedAnswer =>
                    (selectedAnswer' = EmptyString /\ ~showResult')
              /\ Len(userAnswers') <= Len(userAnswers)]_vars

(* A submit with nothing selected on the second question. *)
C34_Witness ==
    /\ lastOp = "submitAnswer:return"
    /\ basic_Shown("quiz")
    /\ currentQuestionIndex = 1
    /\ selectedAnswer = EmptyString
    /\ ~showResult
    /\ Len(userAnswers) = 1
    /\ timers = <<>>

(* Feedback shown for the answer that was just submitted. *)
C34_WitnessFeedback ==
    /\ lastOp = "submitAnswer"
    /\ basic_Shown("quiz")
    /\ showResult
    /\ selectedAnswer # EmptyString
    /\ Len(timers) = 1

====
